---- MODULE Spec2Model ----
(***************************************************************************)
(* Model of the open-notebook authentication middleware                   *)
(* (api/auth.py), the ownership helpers and the notebook routes           *)
(* (api/routers/notebooks.py).                                            *)
(*                                                                         *)
(* Python strings that the code parses (the Authorization header, the     *)
(* bearer token, the configured password) are sequences of one-character  *)
(* strings.  Identifiers that the code only compares (user ids, team ids, *)
(* paths, methods) are TLA+ strings.                                      *)
(***************************************************************************)
EXTENDS Integers, Sequences, FiniteSets, TLC

\* ------------------------------------------------------------------ bounds

\* Largest number of notebook records the storage holds.
MaxNotebooks == 2

\* Largest number of notebook records in the storage specification SpecStore.
MaxStored == 1

\* Largest number of copies of one reference edge the storage holds.
MaxReferences == 2

\* ------------------------------------------------------------ Python values

\* None for identifier-like values (user ids, team ids, roles).
None == "<None>"

\* None for character-sequence values (headers, password).
NoneStr == << "<None>" >>

\* Python truthiness of an Optional[str] identifier: None and "" are falsy.
Truthy(x) == x # None /\ x # ""

\* Python truthiness of an Optional[str] character sequence.
TruthyStr(s) == s # NoneStr /\ s # << >>

UpperChars == << "A", "B", "C", "E", "I", "R", "S" >>
LowerChars == << "a", "b", "c", "e", "i", "r", "s" >>

\* str.lower() on one character.
LowerChar(c) ==
    IF \E i \in 1..Len(UpperChars) : UpperChars[i] = c
    THEN LowerChars[CHOOSE i \in 1..Len(UpperChars) : UpperChars[i] = c]
    ELSE c

\* str.lower()
Lower(s) == [i \in 1..Len(s) |-> LowerChar(s[i])]

\* str.split(" ", 1): at most one split, at the first space.
Split1(s) ==
    IF \E i \in 1..Len(s) : s[i] = " "
    THEN LET k == CHOOSE i \in 1..Len(s) :
                    s[i] = " " /\ \A j \in 1..(i - 1) : s[j] # " "
         IN  << SubSeq(s, 1, k - 1), SubSeq(s, k + 1, Len(s)) >>
    ELSE << s >>

bearer == << "b", "e", "a", "r", "e", "r" >>

\* Variant: the scheme is compared without lower().
HeaderWellFormed_CaseSensitive(auth_header) ==
    LET parts == Split1(auth_header)
    IN  Len(parts) = 2 /\ parts[1] = << "B", "e", "a", "r", "e", "r" >>

\* "scheme, token = auth_header.split(" ", 1)" followed by the scheme test:
\* the unpacking raises ValueError unless the split gives two parts.
HeaderWellFormed(auth_header) ==
    LET parts == Split1(auth_header)
    IN  Len(parts) = 2 /\ Lower(parts[1]) = bearer

\* The token bound by the unpacking (only read when the header is well formed).
HeaderToken(auth_header) == Split1(auth_header)[2]

\* ------------------------------------------------------------------- inputs

Slots == {1, 2}

SecretS == << "s" >>

\* Authorization header values a client may send.
AuthHeaders ==
    { NoneStr,
      << "B", "e", "a", "r", "e", "r", " ", "t" >>,
      << "b", "e", "a", "r", "e", "r", " ", "s" >>,
      << "B", "E", "A", "R", "E", "R", " ", "s" >>,
      << "B", "a", "s", "i", "c", " ", "s" >>,
      << "B", "e", "a", "r", "e", "r", "s" >>,
      << "B", "e", "a", "r", "e", "r", " " >> }

\* OPEN_NOTEBOOK_PASSWORD: unset, empty (tests/conftest.py) or a secret.
Passwords == { NoneStr, << >>, SecretS }

TeamIds == { "teamA", "teamB" }

\* X-Team-ID header values: absent, empty, or a team id.
TeamHeaders == { None, "" } \cup TeamIds

\* The user objects the identity provider may return from get_user.
ProviderUsers ==
    { [id |-> "u1", email |-> "u1@example.org", role |-> None],
      [id |-> "u1", email |-> "u1@example.org", role |-> ""],
      [id |-> "u2", email |-> "u2@example.org", role |-> "service_role"] }

NoUser == [id |-> None, email |-> None, role |-> None]

DefaultExcludedPaths == { "/", "/health", "/docs", "/openapi.json", "/redoc" }

\* Request slots; the serial specification Spec drives slot 1 only.
Serial == {1}

NotebookIds == 1..MaxNotebooks

\* A NotebookUpdate body with no field provided.
NoUpdate == [name |-> None, description |-> None, archived |-> None]

\* A request to path with method: path and query parameters and body fields
\* at their defaults.
Shape(path, method) ==
    [path |-> path, method |-> method, notebook_id |-> 0, body_team_id |-> None,
     source_id |-> 0, update |-> NoUpdate, archived |-> None]

\* (path, method, parameters, body) of the routes the serial model serves.
RequestShapes ==
    { Shape("/health", "GET"), Shape("/api/notebooks", "OPTIONS"),
      Shape("/api/search", "POST") }
    \cup { [Shape("/api/notebooks", "POST") EXCEPT !.body_team_id = t] :
              t \in {None, "teamB"} }
    \cup { [Shape("/api/notebooks/{notebook_id}", "GET") EXCEPT !.notebook_id = n] :
              n \in NotebookIds }

\* The request made of a shape and the two headers the code reads.
WithHeaders(shape, a, t) ==
    [path |-> shape.path, method |-> shape.method, notebook_id |-> shape.notebook_id,
     body_team_id |-> shape.body_team_id, source_id |-> shape.source_id,
     update |-> shape.update, archived |-> shape.archived,
     Authorization |-> a, XTeamID |-> t]

NoRequest == WithHeaders(Shape(None, None), NoneStr, None)

\* Name, description and archived flag of a notebook as create_notebook
\* stores them (Optional[bool] values are "True", "False" or None).
NewFields == [name |-> "n0", description |-> "d0", archived |-> "False"]

\* The environment variables the code reads: whether the supabase package
\* imports, SUPABASE_URL, SUPABASE_ANON_KEY and OPEN_NOTEBOOK_PASSWORD
\* (os.environ.get gives None for an unset variable).
Environ(available, url, key, pw) ==
    [SUPABASE_AVAILABLE |-> available, SUPABASE_URL |-> url,
     SUPABASE_ANON_KEY |-> key, OPEN_NOTEBOOK_PASSWORD |-> pw]

\* The environment of a process whose middleware holds a client (package,
\* URL and key all there) or holds none (URL and key unset).
EnvironOf(client, pw) ==
    Environ(TRUE, IF client THEN "https://p" ELSE None,
            IF client THEN "anon" ELSE None, pw)

\* An email and password as posted to /auth/login.
Credentials(email, pw) == [email |-> email, password |-> pw]

NoCredentials == Credentials(None, None)

\* The provider has not been called.
NoOutcome == [kind |-> "none", message |-> << >>, access_token |-> None]

\* No login call is in progress.
LoginIdle == [pc |-> "idle", credentials |-> NoCredentials, outcome |-> NoOutcome,
              status |-> 0, detail |-> None, access_token |-> None,
              token_type |-> None]

NoResponse == [status |-> 0, detail |-> None]

\* get_user has not been called for the request.
NotCalled == [kind |-> "none", user |-> NoUser]

\* A record written before ownership fields existed.
LegacyNotebook == [user_id |-> None, team_id |-> None, created_by |-> None]

\* -------------------------------------------------------------------- state

VARIABLES
    middleware,       \* which middleware class the application installs
    supabase_client,  \* self.supabase_client is not None
    password,         \* self.password
    excluded_paths,   \* self.excluded_paths
    pc,               \* per slot: position of the request in the pipeline
    request,          \* per slot: the inbound request
    state_user,       \* per slot: request.state.user (NoUser when unset)
    auth_response,    \* per slot: what supabase_client.auth.get_user did
    trace,            \* per slot: calls made by dispatch, in order
    handler_saw,      \* per slot: request.state.user at each handler invocation
    response,         \* per slot: the response sent to the client
    notebook,         \* storage: notebook id -> stored ownership fields
    result,           \* per slot: ids of the notebooks in the response body
    notebook_fields,  \* storage: notebook id -> name, description, archived
    reference,        \* storage: bag of reference edges [in, out]
    environ,          \* process environment read by the auth router
    login_call             \* the /auth/login call: its input and its result

config == << middleware, supabase_client, password, excluded_paths, environ >>

vars == << middleware, supabase_client, password, excluded_paths, pc, request,
           state_user, auth_response, trace, handler_saw, response, notebook,
           result, notebook_fields, reference, environ, login_call >>

\* What the middleware steps never touch.
beyond == << notebook, result, notebook_fields, reference, login_call >>

\* No request is in progress.
NoTraffic ==
    /\ pc = [r \in Slots |-> "idle"]
    /\ request = [r \in Slots |-> NoRequest]
    /\ state_user = [r \in Slots |-> NoUser]
    /\ auth_response = [r \in Slots |-> NotCalled]
    /\ trace = [r \in Slots |-> << >>]
    /\ handler_saw = [r \in Slots |-> << >>]
    /\ response = [r \in Slots |-> NoResponse]
    /\ result = [r \in Slots |-> {}]

\* State after construction of the middleware: configuration read from the
\* environment once; storage empty or holding a pre-multi-tenancy record.
Init ==
    /\ middleware \in { "SupabaseAuthMiddleware", "PasswordAuthMiddleware" }
    /\ supabase_client \in BOOLEAN
    /\ password \in Passwords
    /\ excluded_paths = DefaultExcludedPaths
    /\ NoTraffic
    /\ notebook \in { << >>, 1 :> LegacyNotebook }
    /\ notebook_fields = [n \in DOMAIN notebook |-> NewFields]
    /\ reference = << >>
    /\ environ = EnvironOf(supabase_client, password)
    /\ login_call = LoginIdle

\* A client sends a request, drawn from the given inputs, on a free slot.
ReceiveFrom(r, shapes, auths, teams) ==
    /\ pc[r] = "idle"
    /\ \E shape \in shapes, a \in auths, t \in teams :
         request' = [request EXCEPT ![r] = WithHeaders(shape, a, t)]
    /\ pc' = [pc EXCEPT ![r] = "dispatch"]
    /\ UNCHANGED << config, state_user, auth_response, trace, handler_saw, response,
                    beyond >>

Receive(r) == ReceiveFrom(r, RequestShapes, AuthHeaders, TeamHeaders)

\* The response has been sent; the request and its request-scoped state are
\* dropped and the slot is free again.
Complete(r) ==
    /\ pc[r] = "done"
    /\ pc' = [pc EXCEPT ![r] = "idle"]
    /\ request' = [request EXCEPT ![r] = NoRequest]
    /\ state_user' = [state_user EXCEPT ![r] = NoUser]
    /\ auth_response' = [auth_response EXCEPT ![r] = NotCalled]
    /\ trace' = [trace EXCEPT ![r] = << >>]
    /\ handler_saw' = [handler_saw EXCEPT ![r] = << >>]
    /\ response' = [response EXCEPT ![r] = NoResponse]
    /\ result' = [result EXCEPT ![r] = {}]
    /\ UNCHANGED << config, notebook, notebook_fields, reference, login_call >>

\* ------------------------------------------- SupabaseAuthMiddleware.dispatch

\* Variant: the role is copied without the default.
Identity_NoRoleDefault(user) ==
    [id |-> user.id, email |-> user.email, role |-> user.role]

\* The dict attached to request.state.user; "user.role or 'authenticated'".
Identity(user) ==
    [id |-> user.id, email |-> user.email,
     role |-> IF Truthy(user.role) THEN user.role ELSE "authenticated"]

\* Outcomes of supabase_client.auth.get_user(token): a response with a user,
\* a response without one (or no response), or an exception.
ProviderOutcomes ==
    { [kind |-> "user", user |-> u] : u \in ProviderUsers }
    \cup { [kind |-> "nouser", user |-> NoUser], [kind |-> "raise", user |-> NoUser] }

\* Variant: the preflight skip is missing.
SkipSite_NoPreflight(req, excluded) ==
    IF req.path \in excluded THEN "call_next@108" ELSE "none"

\* The two skips at the top of dispatch: excluded path, CORS preflight.
\* Gives the call_next site taken, or "none".
SkipSite(req, excluded) ==
    IF req.path \in excluded THEN "call_next@108"
    ELSE IF req.method = "OPTIONS" THEN "call_next@112"
    ELSE "none"

\* The header checks: "ok", or the detail of the 401 they produce.
HeaderCheck(auth_header) ==
    IF ~TruthyStr(auth_header) THEN "Missing authorization header"
    ELSE IF ~HeaderWellFormed(auth_header) THEN "Invalid authorization header format"
    ELSE "ok"

\* Variant: a response without a user falls through to the password step.
ProviderVerdict_InvalidFallsThrough(outcome) ==
    CASE outcome.kind = "user" -> "forward"
      [] outcome.kind = "nouser" -> "fallthrough"
      [] outcome.kind = "raise" -> "fallthrough"

\* Variant: a provider error rejects the request instead of falling through.
ProviderVerdict_ErrorRejects(outcome) ==
    CASE outcome.kind = "user" -> "forward"
      [] outcome.kind = "nouser" -> "reject"
      [] outcome.kind = "raise" -> "reject"

\* What the try block does with the outcome of get_user: "forward" (attach the
\* user and call the handler), "reject" (401 Invalid token) or "fallthrough"
\* (the except clause, on to the password step).
ProviderVerdict(outcome) ==
    CASE outcome.kind = "user" -> "forward"
      [] outcome.kind = "nouser" -> "reject"
      [] outcome.kind = "raise" -> "fallthrough"

\* Variant: with no password configured the step lets the request through.
PasswordVerdict_OpenWhenUnset(pw, token) ==
    IF TruthyStr(pw)
    THEN IF token = pw THEN "forward" ELSE "Invalid token or password"
    ELSE "forward"

\* Variant: "is not None" instead of truthiness, so an empty password counts
\* as configured.
PasswordVerdict_NotNone(pw, token) ==
    IF pw # NoneStr
    THEN IF token = pw THEN "forward" ELSE "Invalid token or password"
    ELSE "Authentication required but not configured"

\* The password step: "forward", or the detail of the 401 it produces.
PasswordVerdict(pw, token) ==
    IF TruthyStr(pw)
    THEN IF token = pw THEN "forward" ELSE "Invalid token or password"
    ELSE "Authentication required but not configured"

Unauthorized(detail) == [status |-> 401, detail |-> detail]

\* The middleware returns a response of its own; the handler is not called.
Reply(r, resp) ==
    /\ pc' = [pc EXCEPT ![r] = "done"]
    /\ response' = [response EXCEPT ![r] = resp]

\* The middleware calls call_next(request) at the given site.
Forward(r, tr, site) ==
    /\ pc' = [pc EXCEPT ![r] = "handler"]
    /\ trace' = [trace EXCEPT ![r] = Append(tr, site)]
    /\ UNCHANGED response

\* Lines 105-137: skips, header checks, choice of the first strategy.
Dispatch(r) ==
    /\ pc[r] = "dispatch"
    /\ middleware = "SupabaseAuthMiddleware"
    /\ LET req == request[r]
           skip == SkipSite(req, excluded_paths)
           hdr == HeaderCheck(req.Authorization)
       IN  IF skip # "none" THEN Forward(r, trace[r], skip)
           ELSE IF hdr # "ok" THEN Reply(r, Unauthorized(hdr)) /\ UNCHANGED trace
           ELSE /\ pc' = [pc EXCEPT ![r] = IF supabase_client THEN "get_user"
                                             ELSE "password"]
                /\ UNCHANGED << trace, response >>
    /\ UNCHANGED << config, request, state_user, auth_response, handler_saw, beyond >>

\* Variant: the identity is kept on an object all requests share.
StateOf_Shared(r) == 1

\* "request.state": the state object of the request being dispatched, one per
\* request.
StateOf(r) == r

\* Lines 138-160: the provider call and what the try block does with it.
GetUser(r) ==
    /\ pc[r] = "get_user"
    /\ \E outcome \in ProviderOutcomes :
         LET tr == Append(trace[r], "get_user@140")
             verdict == ProviderVerdict(outcome)
         IN  /\ auth_response' = [auth_response EXCEPT ![r] = outcome]
             /\ CASE verdict = "forward" ->
                       /\ state_user' = [state_user EXCEPT ![StateOf(r)] =
                                                             Identity(outcome.user)]
                       /\ Forward(r, tr, "call_next@150")
                  [] verdict = "reject" ->
                       /\ Reply(r, Unauthorized("Invalid token"))
                       /\ trace' = [trace EXCEPT ![r] = tr]
                       /\ UNCHANGED state_user
                  [] verdict = "fallthrough" ->
                       /\ pc' = [pc EXCEPT ![r] = "password"]
                       /\ trace' = [trace EXCEPT ![r] = tr]
                       /\ UNCHANGED << state_user, response >>
    /\ UNCHANGED << config, request, handler_saw, beyond >>

\* Lines 162-180: the password step and the not-configured response.
PasswordFallback(r) ==
    /\ pc[r] = "password"
    /\ LET token == HeaderToken(request[r].Authorization)
           verdict == PasswordVerdict(password, token)
           tr == IF TruthyStr(password) THEN Append(trace[r], "compare@164")
                 ELSE trace[r]
       IN  IF verdict = "forward" THEN Forward(r, tr, "call_next@166")
           ELSE /\ Reply(r, Unauthorized(verdict))
                /\ trace' = [trace EXCEPT ![r] = tr]
    /\ UNCHANGED << config, request, state_user, auth_response, handler_saw, beyond >>

\* ------------------------------------------- PasswordAuthMiddleware.dispatch

\* The whole decision of the legacy gate: the call_next site taken, or the
\* detail of the 401 it produces.
\* Variant: only an unset secret opens the gate; an empty one is compared.
LegacyVerdict_EmptyIsSecret(pw, req, excluded) ==
    IF pw = NoneStr THEN "call_next@197"
    ELSE IF req.path \in excluded THEN "call_next@201"
    ELSE IF req.method = "OPTIONS" THEN "call_next@205"
    ELSE IF HeaderCheck(req.Authorization) # "ok" THEN HeaderCheck(req.Authorization)
    ELSE IF HeaderToken(req.Authorization) # pw THEN "Invalid password"
    ELSE "call_next@238"

LegacyVerdict(pw, req, excluded) ==
    IF ~TruthyStr(pw) THEN "call_next@197"
    ELSE IF req.path \in excluded THEN "call_next@201"
    ELSE IF req.method = "OPTIONS" THEN "call_next@205"
    ELSE IF HeaderCheck(req.Authorization) # "ok" THEN HeaderCheck(req.Authorization)
    ELSE IF HeaderToken(req.Authorization) # pw THEN "Invalid password"
    ELSE "call_next@238"

IsCallSite(v) ==
    v \in { "call_next@108", "call_next@112", "call_next@150", "call_next@166",
            "call_next@197", "call_next@201", "call_next@205", "call_next@238" }

PasswordDispatch(r) ==
    /\ pc[r] = "dispatch"
    /\ middleware = "PasswordAuthMiddleware"
    /\ LET req == request[r]
           verdict == LegacyVerdict(password, req, excluded_paths)
           compared == verdict \in { "Invalid password", "call_next@238" }
           tr == IF compared THEN Append(trace[r], "compare@230") ELSE trace[r]
       IN  IF IsCallSite(verdict) THEN Forward(r, tr, verdict)
           ELSE /\ Reply(r, Unauthorized(verdict))
                /\ trace' = [trace EXCEPT ![r] = tr]
    /\ UNCHANGED << config, request, state_user, auth_response, handler_saw, beyond >>

\* ---------------------------------------------------------- ownership helpers

\* "user.get('id') if user else None"
UserIdOf(user) == IF user # NoUser THEN user.id ELSE None

\* Variant: the team branch keeps the personal user_id.
get_ownership_context_KeepsUser(user, team_header) ==
    IF Truthy(team_header)
    THEN [user_id |-> UserIdOf(user), team_id |-> team_header,
          created_by |-> UserIdOf(user)]
    ELSE [user_id |-> UserIdOf(user), team_id |-> None, created_by |-> UserIdOf(user)]

get_ownership_context(user, team_header) ==
    IF Truthy(team_header)
    THEN [user_id |-> None, team_id |-> team_header, created_by |-> UserIdOf(user)]
    ELSE [user_id |-> UserIdOf(user), team_id |-> None, created_by |-> UserIdOf(user)]

\* Variant: the filter is the ownership context (a team header unsets user_id).
get_ownership_filter_AsContext(user, team_header) ==
    [user_id |-> IF Truthy(team_header) THEN None ELSE UserIdOf(user),
     team_id |-> team_header]

\* Variant: without an identity the team header is ignored.
get_ownership_filter_TeamNeedsUser(user, team_header) ==
    [user_id |-> UserIdOf(user),
     team_id |-> IF user = NoUser THEN None ELSE team_header]

get_ownership_filter(user, team_header) ==
    [user_id |-> UserIdOf(user), team_id |-> team_header]

\* Variant: no clause for legacy records.
has_access_NoLegacy(user_id, team_id, nb) ==
    \/ Truthy(user_id) /\ nb.user_id = user_id
    \/ Truthy(team_id) /\ nb.team_id = team_id

\* The access check of get_notebook on the fetched record nb.
has_access(user_id, team_id, nb) ==
    \/ Truthy(user_id) /\ nb.user_id = user_id
    \/ Truthy(team_id) /\ nb.team_id = team_id
    \/ nb.user_id = None /\ nb.team_id = None

\* ------------------------------------------------------------ route handlers

Route(req) ==
    IF req.path = "/api/notebooks" /\ req.method = "POST" THEN "create_notebook"
    ELSE IF req.path = "/api/notebooks" /\ req.method = "GET" THEN "get_notebooks"
    ELSE IF req.path = "/api/notebooks/{notebook_id}"
    THEN CASE req.method = "GET" -> "get_notebook"
           [] req.method = "PUT" -> "update_notebook"
           [] req.method = "DELETE" -> "delete_notebook"
           [] OTHER -> "other"
    ELSE IF req.path = "/api/notebooks/{notebook_id}/sources/{source_id}"
    THEN CASE req.method = "POST" -> "add_source_to_notebook"
           [] req.method = "DELETE" -> "remove_source_from_notebook"
           [] OTHER -> "other"
    ELSE "other"

\* The site of the call_next that is running.
CallSite(r) == trace[r][Len(trace[r])]

\* The handler produced a response whose body carries the notebooks ids;
\* call_next returns it and the middleware returns it to the client.
HandlerReturnsBody(r, resp, ids) ==
    /\ pc' = [pc EXCEPT ![r] = "done"]
    /\ response' = [response EXCEPT ![r] = resp]
    /\ result' = [result EXCEPT ![r] = ids]
    /\ handler_saw' = [handler_saw EXCEPT ![r] = Append(@, state_user[r])]
    /\ UNCHANGED << config, request, state_user, auth_response, trace, login_call >>

\* The handler produced a response that carries no notebook.
HandlerReturns(r, resp) == HandlerReturnsBody(r, resp, {})

\* The handler raised: call_next re-raises.  At line 150 the call is inside
\* the try block, so "except Exception" (line 158) catches it and dispatch
\* goes on to the password step; elsewhere the exception leaves dispatch.
HandlerRaises(r) ==
    /\ IF CallSite(r) = "call_next@150"
       THEN pc' = [pc EXCEPT ![r] = "password"] /\ UNCHANGED response
       ELSE /\ pc' = [pc EXCEPT ![r] = "done"]
            /\ response' = [response EXCEPT ![r] =
                               [status |-> 500, detail |-> "Internal Server Error"]]
    /\ handler_saw' = [handler_saw EXCEPT ![r] = Append(@, state_user[r])]
    /\ UNCHANGED << config, request, state_user, auth_response, trace, result, login_call >>

\* Ownership fields create_notebook stores, from the request and its body.
\* Variant: the body's team_id is ignored.
NewNotebook_FromContext(user, team_header, body_team_id) ==
    get_ownership_context(user, team_header)

\* Variant: the creator stays the personal owner of a team notebook.
NewNotebook_KeepsUser(user, team_header, body_team_id) ==
    LET ownership == get_ownership_context(user, team_header)
        team_id == IF Truthy(body_team_id) THEN body_team_id ELSE ownership.team_id
    IN  [user_id |-> UserIdOf(user), team_id |-> team_id,
         created_by |-> ownership.created_by]

NewNotebook(user, team_header, body_team_id) ==
    LET ownership == get_ownership_context(user, team_header)
        team_id == IF Truthy(body_team_id) THEN body_team_id ELSE ownership.team_id
        user_id == IF Truthy(team_id) THEN None ELSE ownership.user_id
    IN  [user_id |-> user_id, team_id |-> team_id, created_by |-> ownership.created_by]

\* POST /notebooks.  save() raises when the storage is full; the handler
\* turns that into a 500.
create_notebook(r) ==
    /\ pc[r] = "handler"
    /\ Route(request[r]) = "create_notebook"
    /\ LET req == request[r]
           free == NotebookIds \ DOMAIN notebook
       IN  IF free # {}
           THEN LET id == CHOOSE n \in free : \A m \in free : n <= m
                IN  /\ notebook' = [n \in DOMAIN notebook \cup {id} |->
                                       IF n = id
                                       THEN NewNotebook(state_user[r], req.XTeamID,
                                                        req.body_team_id)
                                       ELSE notebook[n]]
                    /\ notebook_fields' = [n \in DOMAIN notebook \cup {id} |->
                                              IF n = id THEN NewFields
                                              ELSE notebook_fields[n]]
                    /\ HandlerReturnsBody(r, [status |-> 200, detail |-> "created"],
                                          {id})
           ELSE /\ UNCHANGED << notebook, notebook_fields >>
                /\ HandlerReturns(r, [status |-> 500, detail |-> "Error creating notebook"])
    /\ UNCHANGED reference

\* GET /notebooks/{notebook_id}
get_notebook(r) ==
    /\ pc[r] = "handler"
    /\ Route(request[r]) = "get_notebook"
    /\ LET req == request[r]
           f == get_ownership_filter(state_user[r], req.XTeamID)
       IN  IF req.notebook_id \notin DOMAIN notebook
           THEN HandlerReturns(r, [status |-> 404, detail |-> "Notebook not found"])
           ELSE IF ~has_access(f.user_id, f.team_id, notebook[req.notebook_id])
           THEN HandlerReturns(r, [status |-> 403, detail |-> "Access denied"])
           ELSE HandlerReturnsBody(r, [status |-> 200, detail |-> "notebook"],
                                   {req.notebook_id})
    /\ UNCHANGED << notebook, notebook_fields, reference >>

\* Any other route (health, preflight, search): touches no notebook; the
\* search route may raise an exception that no handler converts.
other_route(r) ==
    /\ pc[r] = "handler"
    /\ Route(request[r]) = "other"
    /\ \/ HandlerReturns(r, [status |-> 200, detail |-> "ok"])
       \/ request[r].path = "/api/search" /\ HandlerRaises(r)
    /\ UNCHANGED << notebook, notebook_fields, reference >>

\* Variant: a caller without identity and team header is shown nothing owned.
ListMatches_Scoped(user_id, team_id, nb) ==
    \/ user_id # None /\ nb.user_id = user_id
    \/ team_id # None /\ nb.team_id = team_id
    \/ nb.user_id = None /\ nb.team_id = None

\* The WHERE clause get_notebooks builds: one condition per filter component
\* that "is not None", joined by OR; no clause at all when both are None.
ListMatches(user_id, team_id, nb) ==
    IF user_id = None /\ team_id = None THEN TRUE
    ELSE \/ user_id # None /\ nb.user_id = user_id
         \/ team_id # None /\ nb.team_id = team_id

\* GET /notebooks
get_notebooks(r) ==
    /\ pc[r] = "handler"
    /\ Route(request[r]) = "get_notebooks"
    /\ LET req == request[r]
           f == get_ownership_filter(state_user[r], req.XTeamID)
           rows == { n \in DOMAIN notebook :
                       ListMatches(f.user_id, f.team_id, notebook[n]) }
           kept == IF req.archived # None
                   THEN { n \in rows : notebook_fields[n].archived = req.archived }
                   ELSE rows
       IN  HandlerReturnsBody(r, [status |-> 200, detail |-> "notebooks"], kept)
    /\ UNCHANGED << notebook, notebook_fields, reference >>

\* Variant: a field that is not provided is written as well.
UpdatedFields_Overwrites(fields, update) ==
    [name |-> IF update.name # None THEN update.name ELSE fields.name,
     description |-> update.description,
     archived |-> IF update.archived # None THEN update.archived ELSE fields.archived]

\* "Update only provided fields": name, description, archived.
UpdatedFields(fields, update) ==
    [name |-> IF update.name # None THEN update.name ELSE fields.name,
     description |-> IF update.description # None THEN update.description
                     ELSE fields.description,
     archived |-> IF update.archived # None THEN update.archived ELSE fields.archived]

\* Variant: the update clears the personal owner.
UpdatedOwner_Disowns(nb, update) == [nb EXCEPT !.user_id = None]

\* The ownership fields update_notebook saves: those it loaded.
UpdatedOwner(nb, update) == nb

\* PUT /notebooks/{notebook_id}
update_notebook(r) ==
    /\ pc[r] = "handler"
    /\ Route(request[r]) = "update_notebook"
    /\ LET req == request[r]
           id == req.notebook_id
       IN  IF id \notin DOMAIN notebook
           THEN /\ HandlerReturns(r, [status |-> 404, detail |-> "Notebook not found"])
                /\ UNCHANGED << notebook, notebook_fields >>
           ELSE /\ notebook' = [notebook EXCEPT ![id] = UpdatedOwner(@, req.update)]
                /\ notebook_fields' =
                      [notebook_fields EXCEPT ![id] = UpdatedFields(@, req.update)]
                /\ HandlerReturnsBody(r, [status |-> 200, detail |-> "updated"], {id})
    /\ UNCHANGED reference

\* ensure_record_id: the record id of row n of a table.
ensure_record_id(table, n) == << table, n >>

\* Source records in storage.
SourceIds == {1}

\* Number of stored reference edges equal to e.
Copies(e) == IF e \in DOMAIN reference THEN reference[e] ELSE 0

\* DELETE /notebooks/{notebook_id}.  The storage engine drops the edges of a
\* deleted record with it.
delete_notebook(r) ==
    /\ pc[r] = "handler"
    /\ Route(request[r]) = "delete_notebook"
    /\ LET id == request[r].notebook_id
           rid == ensure_record_id("notebook", id)
       IN  IF id \notin DOMAIN notebook
           THEN /\ HandlerReturns(r, [status |-> 404, detail |-> "Notebook not found"])
                /\ UNCHANGED << notebook, notebook_fields, reference >>
           ELSE /\ notebook' = [n \in DOMAIN notebook \ {id} |-> notebook[n]]
                /\ notebook_fields' =
                      [n \in DOMAIN notebook \ {id} |-> notebook_fields[n]]
                /\ reference' =
                      [e \in { x \in DOMAIN reference : x.in # rid /\ x.out # rid } |->
                          reference[e]]
                /\ HandlerReturns(r, [status |-> 200, detail |-> "deleted"])

\* The edges matched by the existence check of add_source_to_notebook:
\* "WHERE out = $source_id AND in = $notebook_id".
ExistingRef(notebook_rid, source_rid) ==
    { e \in DOMAIN reference : e.out = source_rid /\ e.in = notebook_rid }

\* The edge made by "RELATE $source_id->reference->$notebook_id": it comes from
\* (in) the source and goes to (out) the notebook.
Relate(source_rid, notebook_rid) == [in |-> source_rid, out |-> notebook_rid]

\* POST /notebooks/{notebook_id}/sources/{source_id}.  RELATE raises when the
\* storage holds MaxReferences copies of the edge; the handler turns that
\* into a 500.
add_source_to_notebook(r) ==
    /\ pc[r] = "handler"
    /\ Route(request[r]) = "add_source_to_notebook"
    /\ LET req == request[r]
           nrid == ensure_record_id("notebook", req.notebook_id)
           srid == ensure_record_id("source", req.source_id)
           e == Relate(srid, nrid)
       IN  IF req.notebook_id \notin DOMAIN notebook
           THEN /\ HandlerReturns(r, [status |-> 404, detail |-> "Notebook not found"])
                /\ UNCHANGED reference
           ELSE IF req.source_id \notin SourceIds
           THEN /\ HandlerReturns(r, [status |-> 404, detail |-> "Source not found"])
                /\ UNCHANGED reference
           ELSE IF ExistingRef(nrid, srid) # {}
           THEN /\ HandlerReturns(r, [status |-> 200, detail |-> "linked"])
                /\ UNCHANGED reference
           ELSE IF Copies(e) >= MaxReferences
           THEN /\ HandlerReturns(r, [status |-> 500,
                                      detail |-> "Error linking source to notebook"])
                /\ UNCHANGED reference
           ELSE /\ reference' = [x \in DOMAIN reference \cup {e} |->
                                    IF x = e THEN Copies(e) + 1 ELSE reference[x]]
                /\ HandlerReturns(r, [status |-> 200, detail |-> "linked"])
    /\ UNCHANGED << notebook, notebook_fields >>

\* Variant: the delete names the edge ends as the existence check does.
RemovedRef_AsExistenceCheck(notebook_rid, source_rid) ==
    { e \in DOMAIN reference : e.out = source_rid /\ e.in = notebook_rid }

\* The edges deleted by remove_source_from_notebook:
\* "WHERE out = $notebook_id AND in = $source_id".
RemovedRef(notebook_rid, source_rid) ==
    { e \in DOMAIN reference : e.out = notebook_rid /\ e.in = source_rid }

\* DELETE /notebooks/{notebook_id}/sources/{source_id}
remove_source_from_notebook(r) ==
    /\ pc[r] = "handler"
    /\ Route(request[r]) = "remove_source_from_notebook"
    /\ LET req == request[r]
           nrid == ensure_record_id("notebook", req.notebook_id)
           srid == ensure_record_id("source", req.source_id)
       IN  IF req.notebook_id \notin DOMAIN notebook
           THEN /\ HandlerReturns(r, [status |-> 404, detail |-> "Notebook not found"])
                /\ UNCHANGED reference
           ELSE /\ reference' = [e \in DOMAIN reference \ RemovedRef(nrid, srid) |->
                                    reference[e]]
                /\ HandlerReturns(r, [status |-> 200, detail |-> "removed"])
    /\ UNCHANGED << notebook, notebook_fields >>

\* ------------------------------------------------------------- specification

Step(r) ==
    \/ Receive(r)
    \/ Dispatch(r)
    \/ GetUser(r)
    \/ PasswordFallback(r)
    \/ PasswordDispatch(r)
    \/ create_notebook(r)
    \/ get_notebook(r)
    \/ other_route(r)
    \/ Complete(r)

Next == \E r \in Serial : Step(r)

Spec == Init /\ [][Next]_vars

\* ----------------------------------------------- the storage specification

StoreIds == 1..MaxStored

\* NotebookUpdate bodies: the name alone, or all three fields.
StoreUpdates ==
    { [NoUpdate EXCEPT !.name = "n1"],
      [name |-> "n1", description |-> "d1", archived |-> "True"] }

\* Requests to the notebook routes; clients stop creating notebooks once
\* MaxStored of them are stored.
StoreShapes(stored) ==
    (IF Cardinality(stored) < MaxStored
     THEN { [Shape("/api/notebooks", "POST") EXCEPT !.body_team_id = b] :
               b \in { None, "", "teamB" } }
     ELSE {})
    \cup { [Shape("/api/notebooks", "GET") EXCEPT !.archived = a] : a \in { None, "True" } }
    \cup { [Shape("/api/notebooks/{notebook_id}", m) EXCEPT !.notebook_id = n] :
              m \in { "GET", "DELETE" }, n \in StoreIds }
    \cup { [Shape("/api/notebooks/{notebook_id}", "PUT") EXCEPT
               !.notebook_id = n, !.update = u] : n \in StoreIds, u \in StoreUpdates }
    \cup { [Shape("/api/notebooks/{notebook_id}/sources/{source_id}", "POST") EXCEPT
               !.notebook_id = n, !.source_id = x] : n \in StoreIds, x \in { 1, 2 } }
    \cup { [Shape("/api/notebooks/{notebook_id}/sources/{source_id}", "DELETE") EXCEPT
               !.notebook_id = n, !.source_id = x] : n \in StoreIds, x \in SourceIds }

\* Callers send the shared secret as bearer token: the provider may know it
\* as a user's token, or fail and leave the caller anonymous.
ReceiveStore(r) ==
    ReceiveFrom(r, StoreShapes(DOMAIN notebook),
                { << "b", "e", "a", "r", "e", "r", " ", "s" >> }, { None, "teamA" })

\* A deployment with both the provider and the shared secret configured.
InitStore ==
    /\ Init
    /\ middleware = "SupabaseAuthMiddleware"
    /\ supabase_client
    /\ password = SecretS

StepStore(r) ==
    \/ ReceiveStore(r)
    \/ Dispatch(r)
    \/ GetUser(r)
    \/ PasswordFallback(r)
    \/ create_notebook(r)
    \/ get_notebook(r)
    \/ get_notebooks(r)
    \/ update_notebook(r)
    \/ delete_notebook(r)
    \/ add_source_to_notebook(r)
    \/ remove_source_from_notebook(r)
    \/ Complete(r)

NextStore == \E r \in Serial : StepStore(r)

SpecStore == InitStore /\ [][NextStore]_vars

\* ------------------------------------------------------------------- claims

Supabase(r) == middleware = "SupabaseAuthMiddleware" /\ pc[r] # "idle"

\* The request is neither to an excluded path nor a CORS preflight.
Gated(r) == request[r].path \notin excluded_paths /\ request[r].method # "OPTIONS"

\* The bearer token equals the configured, non-empty shared secret.
TokenIsSecret(r) ==
    /\ password # NoneStr /\ password # << >>
    /\ HeaderToken(request[r].Authorization) = password

HandlerInvoked(r) == handler_saw[r] # << >>

\* C1 as claimed: when the provider reports the token invalid (get_user gives
\* no user) the middleware falls through to the shared-secret step, so a token
\* equal to the secret reaches the handler and any 401 comes from the
\* shared-secret step or the not-configured step.
C1_InvalidFallsThrough ==
    \A r \in Slots :
        (Supabase(r) /\ auth_response[r].kind = "nouser" /\ pc[r] = "done")
        => /\ TokenIsSecret(r) => HandlerInvoked(r)
           /\ response[r].status = 401
                => response[r].detail \in
                     { "Invalid token or password",
                       "Authentication required but not configured" }

\* C1 amended: when get_user gives no user the middleware rejects at that
\* point with 401 "Invalid token"; the shared secret is not compared and the
\* handler is not invoked, even if the token equals the configured secret.
C1_InvalidRejects ==
    \A r \in Slots :
        (Supabase(r) /\ auth_response[r].kind = "nouser")
        => /\ pc[r] = "done"
           /\ response[r] = [status |-> 401, detail |-> "Invalid token"]
           /\ trace[r] = << "get_user@140" >>
           /\ ~HandlerInvoked(r)

C1_Witness ==
    /\ Supabase(1) /\ auth_response[1].kind = "nouser" /\ TokenIsSecret(1)
    /\ response[1].detail = "Invalid token"

\* C2: auth is never bypassed.  For a gated request the handler is invoked
\* only if the provider verified the token as a user, or a shared secret is
\* configured and the bearer token equals it exactly; also when the provider
\* call raised.
C2_NoBypass ==
    \A r \in Slots :
        (Supabase(r) /\ Gated(r) /\ (pc[r] = "handler" \/ HandlerInvoked(r)))
        => \/ auth_response[r].kind = "user"
           \/ TokenIsSecret(r)

C2_Witness ==
    /\ Supabase(1) /\ Gated(1) /\ pc[1] = "done" /\ HandlerInvoked(1)
    /\ auth_response[1].kind = "raise"

\* C3: when the provider returns a user for the token, the gated request is
\* forwarded, and every handler invocation sees the identity with the
\* provider's id and the role defaulted to "authenticated"; whatever the
\* shared secret is.  With a client configured, every gated request with a
\* well-formed header gets that provider call.
C3_ProviderIdentity ==
    \A r \in Slots :
        /\ (Supabase(r) /\ auth_response[r].kind = "user")
           => LET u == auth_response[r].user
                  role == IF u.role \in { None, "" } THEN "authenticated" ELSE u.role
              IN  /\ pc[r] = "handler" \/ HandlerInvoked(r)
                  /\ "call_next@150" = trace[r][2]
                  /\ state_user[r].id = u.id /\ state_user[r].role = role
                  /\ \A i \in 1..Len(handler_saw[r]) :
                        handler_saw[r][i].id = u.id /\ handler_saw[r][i].role = role
        /\ (Supabase(r) /\ Gated(r) /\ supabase_client /\ pc[r] \in { "handler", "done" }
            /\ HeaderCheck(request[r].Authorization) = "ok")
           => trace[r][1] = "get_user@140"

C3_Witness ==
    /\ Supabase(1) /\ pc[1] = "done" /\ auth_response[1].kind = "user"
    /\ auth_response[1].user.role = None
    /\ handler_saw[1] = << [id |-> "u1", email |-> "u1@example.org",
                            role |-> "authenticated"] >>
    /\ password = SecretS /\ ~TokenIsSecret(1)
    /\ response[1].status = 200

\* C4: when the provider call raises and the token equals the configured
\* shared secret, the gated request is forwarded through the password step,
\* with no identity attached.
C4_FallbackForwards ==
    \A r \in Slots :
        (Supabase(r) /\ auth_response[r].kind = "raise" /\ TokenIsSecret(r))
        => /\ pc[r] \in { "password", "handler", "done" }
           /\ pc[r] \in { "handler", "done" }
                => trace[r] = << "get_user@140", "compare@164", "call_next@166" >>
           /\ pc[r] = "done" => handler_saw[r] = << NoUser >>

C4_Witness ==
    /\ Supabase(1) /\ auth_response[1].kind = "raise" /\ TokenIsSecret(1)
    /\ pc[1] = "done" /\ handler_saw[1] = << NoUser >> /\ response[1].status = 200

\* C5: when the provider call raises, the gated request is answered 401 and
\* the handler is not invoked if the shared secret differs from the token
\* ("Invalid token or password") or no shared secret is configured
\* ("Authentication required but not configured").
C5_FallbackRejects ==
    \A r \in Slots :
        (Supabase(r) /\ auth_response[r].kind = "raise" /\ ~TokenIsSecret(r))
        => /\ pc[r] \in { "password", "done" }
           /\ ~HandlerInvoked(r)
           /\ pc[r] = "done"
                => response[r] =
                     [status |-> 401,
                      detail |-> IF password \in { NoneStr, << >> }
                                 THEN "Authentication required but not configured"
                                 ELSE "Invalid token or password"]

C5_Witness ==
    /\ Supabase(1) /\ auth_response[1].kind = "raise" /\ pc[1] = "done"
    /\ password = << >> /\ HeaderToken(request[1].Authorization) = << >>
    /\ response[1].detail = "Authentication required but not configured"

\* C6: a request to an excluded path, or a CORS preflight, is forwarded to
\* the handler whatever its Authorization header is; no identity is attached
\* and the provider is not consulted (both middlewares).
C6_ExemptForwarded ==
    \A r \in Slots :
        (pc[r] \notin { "idle", "dispatch" } /\ ~Gated(r))
        => /\ pc[r] \in { "handler", "done" }
           /\ Len(trace[r]) = 1
           /\ trace[r][1] \in { "call_next@108", "call_next@112", "call_next@197",
                                "call_next@201", "call_next@205" }
           /\ state_user[r] = NoUser
           /\ auth_response[r].kind = "none"
           /\ pc[r] = "done" => handler_saw[r] = << NoUser >> /\ response[r].status # 401

C6_Witness ==
    /\ Supabase(1) /\ supabase_client /\ pc[1] = "done"
    /\ request[1].method = "OPTIONS" /\ request[1].path \notin excluded_paths
    /\ request[1].Authorization = << "B", "a", "s", "i", "c", " ", "s" >>
    /\ handler_saw[1] = << NoUser >>

C7_HasSpace(h) == \E i \in 1..Len(h) : h[i] = " "

\* The part of h before its first space.
C7_Scheme(h) ==
    SubSeq(h, 1, (CHOOSE i \in 1..Len(h) :
                     h[i] = " " /\ \A j \in 1..(i - 1) : h[j] # " ") - 1)

\* "bearer" in any letter case.
C7_IsBearer(s) ==
    /\ Len(s) = 6
    /\ s[1] \in { "b", "B" } /\ s[2] \in { "e", "E" } /\ s[3] \in { "a", "A" }
    /\ s[4] \in { "r", "R" } /\ s[5] \in { "e", "E" } /\ s[6] \in { "r", "R" }

C7_Malformed(h) == ~C7_HasSpace(h) \/ ~C7_IsBearer(C7_Scheme(h))

\* C7: a gated request whose Authorization header is present but malformed (no
\* space, or a scheme other than "bearer" in any letter case) gets 401
\* "Invalid authorization header format" with no provider call, no password
\* comparison and no handler invocation; a header with the scheme "bearer" in
\* any letter case followed by a space does not get that response.
C7_MalformedHeader ==
    \A r \in Slots :
        (Supabase(r) /\ Gated(r) /\ pc[r] # "dispatch"
         /\ request[r].Authorization \notin { NoneStr, << >> })
        => IF C7_Malformed(request[r].Authorization)
           THEN /\ pc[r] = "done"
                /\ response[r] = [status |-> 401,
                                  detail |-> "Invalid authorization header format"]
                /\ trace[r] = << >>
                /\ auth_response[r].kind = "none"
                /\ ~HandlerInvoked(r)
           ELSE response[r].detail # "Invalid authorization header format"

C7_Witness ==
    /\ Supabase(1) /\ Gated(1) /\ pc[1] = "done"
    /\ request[1].Authorization = << "B", "e", "a", "r", "e", "r", "s" >>
    /\ response[1].detail = "Invalid authorization header format"
    /\ supabase_client /\ password = SecretS

\* The request in slot r was answered by get_notebook for a stored notebook.
ReadDecided(r) ==
    /\ pc[r] = "done" /\ HandlerInvoked(r)
    /\ request[r].path = "/api/notebooks/{notebook_id}"
    /\ request[r].notebook_id \in DOMAIN notebook

CallerId(r) == IF state_user[r] = NoUser THEN None ELSE state_user[r].id

\* C8 as claimed: the read is allowed iff the OwnershipContext (a team header
\* unsets user_id) matches the notebook's user_id or team_id, or the notebook
\* is unowned; otherwise 403.
C8_ContextDecides ==
    \A r \in Slots :
        ReadDecided(r)
        => LET nb == notebook[request[r].notebook_id]
               team == request[r].XTeamID
               in_team == team \notin { None, "" }
               ctx_user == IF in_team THEN None ELSE CallerId(r)
               ctx_team == IF in_team THEN team ELSE None
               allow == \/ ctx_user # None /\ ctx_user = nb.user_id
                        \/ ctx_team # None /\ ctx_team = nb.team_id
                        \/ nb.user_id = None /\ nb.team_id = None
           IN  response[r].status = IF allow THEN 200 ELSE 403

\* C8 amended: the read is allowed iff, with user_id the caller's identity id
\* and team_id the X-Team-ID header taken independently (a team header does
\* not unset user_id), user_id is set and equals the notebook's user_id, or
\* team_id is set and equals the notebook's team_id, or the notebook is
\* unowned; otherwise 403.
C8_FilterDecides ==
    \A r \in Slots :
        ReadDecided(r)
        => LET nb == notebook[request[r].notebook_id]
               team == request[r].XTeamID
               allow == \/ CallerId(r) \notin { None, "" } /\ CallerId(r) = nb.user_id
                        \/ team \notin { None, "" } /\ team = nb.team_id
                        \/ nb.user_id = None /\ nb.team_id = None
           IN  response[r].status = IF allow THEN 200 ELSE 403

C8_Witness ==
    /\ ReadDecided(1) /\ CallerId(1) = "u1" /\ request[1].XTeamID = "teamA"
    /\ notebook[request[1].notebook_id].user_id = "u1"
    /\ notebook[request[1].notebook_id].team_id = None
    /\ response[1].status = 200

\* C9: an unowned notebook is readable by every caller that passed the auth
\* gate, with or without identity or team header; a personal notebook (user
\* set, no team) is readable by that user and denied to any other caller.
C9_LegacyAndPersonal ==
    \A r \in Slots :
        ReadDecided(r)
        => LET nb == notebook[request[r].notebook_id]
           IN  /\ (nb.user_id = None /\ nb.team_id = None) => response[r].status = 200
               /\ (nb.user_id # None /\ nb.team_id = None)
                    => response[r].status =
                         IF CallerId(r) = nb.user_id THEN 200 ELSE 403

C9_Witness ==
    /\ ReadDecided(1) /\ state_user[1] = NoUser /\ request[1].XTeamID = None
    /\ notebook[request[1].notebook_id] = LegacyNotebook
    /\ response[1].status = 200

\* C10: for the identity and X-Team-ID header of any request,
\* get_ownership_context gives {None, header, identity id} when the header is
\* present and non-empty and {identity id, None, identity id} otherwise, so
\* user_id and team_id are never both set.
C10_OwnershipContext ==
    \A r \in Slots :
        pc[r] # "idle"
        => LET h == request[r].XTeamID
               ctx == get_ownership_context(state_user[r], h)
           IN  /\ ctx = IF h \notin { None, "" }
                        THEN [user_id |-> None, team_id |-> h, created_by |-> CallerId(r)]
                        ELSE [user_id |-> CallerId(r), team_id |-> None,
                              created_by |-> CallerId(r)]
               /\ ~(ctx.user_id # None /\ ctx.team_id # None)

C10_Witness ==
    /\ pc[1] = "done" /\ HandlerInvoked(1) /\ response[1].detail = "created"
    /\ CallerId(1) = "u1" /\ request[1].XTeamID = "teamA"
    /\ \E n \in DOMAIN notebook :
          notebook[n] = [user_id |-> None, team_id |-> "teamA", created_by |-> "u1"]

\* C11: for the identity and X-Team-ID header of any request,
\* get_ownership_filter gives (identity id, header), each taken on its own: a
\* team header does not unset user_id and a missing identity does not unset
\* team_id; so get_notebook grants a team's notebook on the header alone.
C11_OwnershipFilter ==
    \A r \in Slots :
        /\ pc[r] # "idle"
           => LET f == get_ownership_filter(state_user[r], request[r].XTeamID)
              IN  f.user_id = CallerId(r) /\ f.team_id = request[r].XTeamID
        /\ (ReadDecided(r) /\ request[r].XTeamID \in TeamIds
            /\ notebook[request[r].notebook_id].team_id = request[r].XTeamID)
           => response[r].status = 200

C11_Witness ==
    /\ ReadDecided(1) /\ CallerId(1) = "u1" /\ request[1].XTeamID = "teamA"
    /\ get_ownership_filter(state_user[1], request[1].XTeamID)
         = [user_id |-> "u1", team_id |-> "teamA"]
    /\ notebook[request[1].notebook_id].team_id = "teamA"
    /\ response[1].status = 200

\* C12: every notebook returned by get_notebooks would also be granted by
\* the access check of get_notebook for the same request: the listing never
\* returns a notebook owned by another user or team than the caller's.
C12_ListingConsistent ==
    \A r \in Slots :
        (pc[r] = "done" /\ response[r].detail = "notebooks")
        => \A n \in result[r] :
              LET f == get_ownership_filter(state_user[r], request[r].XTeamID)
              IN  has_access(f.user_id, f.team_id, notebook[n])

\* The step is a mutating notebook route, run for the request in slot r,
\* that deletes notebook n or changes its fields or its reference edges.
Mutates(r, n) ==
    /\ pc[r] = "handler" /\ pc'[r] = "done"
    /\ Route(request[r]) \in { "update_notebook", "delete_notebook",
                               "add_source_to_notebook", "remove_source_from_notebook" }
    /\ request[r].notebook_id = n
    /\ n \in DOMAIN notebook
    /\ \/ n \notin DOMAIN notebook'
       \/ notebook'[n] # notebook[n]
       \/ notebook_fields'[n] # notebook_fields[n]
       \/ reference' # reference

\* C13: update_notebook, delete_notebook, add_source_to_notebook and
\* remove_source_from_notebook change a notebook or its references only when
\* the caller's ownership matches the notebook's stored owner or the notebook
\* is unowned.
C13_MutationScoped ==
    [][\A r \in Slots, n \in NotebookIds :
          Mutates(r, n)
          => LET f == get_ownership_filter(state_user[r], request[r].XTeamID)
             IN  has_access(f.user_id, f.team_id, notebook[n])]_vars

\* The request in slot r has been answered by create_notebook with the new
\* notebook n.
Created(r, n) ==
    /\ pc[r] = "done"
    /\ response[r] = [status |-> 200, detail |-> "created"]
    /\ n \in result[r]

C15_OwnershipImmutable ==
    [][\A r \in Slots :
          (/\ pc[r] = "handler"
           /\ pc'[r] # "handler"
           /\ Route(request[r]) \in { "update_notebook", "add_source_to_notebook",
                                      "remove_source_from_notebook" })
          => /\ notebook' = notebook
             /\ Route(request[r]) = "update_notebook"
                => /\ reference' = reference
                   /\ DOMAIN notebook_fields' = DOMAIN notebook_fields
                   /\ \A n \in DOMAIN notebook_fields \ { request[r].notebook_id } :
                         notebook_fields'[n] = notebook_fields[n]]_vars

C15_Witness ==
    \E r \in Slots :
        /\ pc[r] = "done"
        /\ response[r] = [status |-> 200, detail |-> "updated"]
        /\ LET n == request[r].notebook_id
           IN  /\ notebook[n].user_id = "u1"
               /\ notebook[n].created_by = "u1"
               /\ notebook_fields[n] = [name |-> "n1", description |-> "d1",
                                        archived |-> "True"]

\* GET /auth/status: what the API reports about its own authentication.
get_auth_status(env) ==
    LET supabase_configured == Truthy(env.SUPABASE_URL) /\ Truthy(env.SUPABASE_ANON_KEY)
        password_configured == TruthyStr(env.OPEN_NOTEBOOK_PASSWORD)
        auth_enabled        == supabase_configured \/ password_configured
    IN  [auth_enabled |-> auth_enabled,
         auth_type    |-> IF supabase_configured THEN "supabase"
                          ELSE IF password_configured THEN "password" ELSE "none",
         message      |-> IF auth_enabled THEN "Authentication is required"
                          ELSE "Authentication is disabled"]

\* C17: when neither a provider nor a shared secret is configured, the auth
\* status reports auth_enabled = false and auth_type "none", and
\* SupabaseAuthMiddleware forwards every non-exempt request to the handler,
\* whatever its credentials.
C17_OpenWhenUnconfigured ==
    \A r \in Slots :
        (/\ Supabase(r) /\ pc[r] = "done"
         /\ ~supabase_client /\ ~TruthyStr(password)
         /\ Gated(r))
        => /\ get_auth_status(environ) =
                 [auth_enabled |-> FALSE, auth_type |-> "none",
                  message |-> "Authentication is disabled"]
           /\ HandlerInvoked(r)
           /\ response[r].status # 401

\* The request in slot r is being handled by the legacy gate.
Legacy(r) == middleware = "PasswordAuthMiddleware" /\ pc[r] # "idle"

\* h is the scheme "bearer" in any letter case, one space, then exactly secret.
BearerOf(h, secret) ==
    /\ C7_HasSpace(h)
    /\ C7_IsBearer(C7_Scheme(h))
    /\ SubSeq(h, 8, Len(h)) = secret

\* C18: in PasswordAuthMiddleware, with no secret configured (unset or empty)
\* every request reaches the handler, whatever its path, method and
\* Authorization header, and nothing is compared; with a secret configured a
\* non-exempt non-preflight request reaches the handler iff its header is the
\* scheme "bearer" (any letter case), a space, and exactly the secret.
C18_LegacyGate ==
    \A r \in Slots :
        (Legacy(r) /\ pc[r] = "done")
        => IF password \in { NoneStr, << >> }
           THEN /\ HandlerInvoked(r)
                /\ trace[r] = << "call_next@197" >>
                /\ response[r].status # 401
           ELSE Gated(r)
                => /\ HandlerInvoked(r) <=> BearerOf(request[r].Authorization, password)
                   /\ ~HandlerInvoked(r) => response[r].status = 401

C18_Witness ==
    \E r \in Slots :
        /\ Legacy(r) /\ pc[r] = "done"
        /\ password = << >>
        /\ Gated(r)
        /\ request[r].Authorization = << "B", "e", "a", "r", "e", "r", "s" >>
        /\ HandlerInvoked(r)

\* Event e is recorded in the trace of the request in slot r.
Traced(r, e) == \E i \in 1..Len(trace[r]) : trace[r][i] = e

\* C19: request.state.user is set only on the provider-success path: a request
\* answered with 401, or forwarded by the shared-secret step, for an excluded
\* path or as a preflight, carries no identity.
C19_IdentityOnlyOnSuccess ==
    \A r \in Slots :
        (/\ Supabase(r) /\ pc[r] = "done"
         /\ \/ response[r].status = 401
            \/ Traced(r, "call_next@166")
            \/ Traced(r, "call_next@108")
            \/ Traced(r, "call_next@112"))
        => state_user[r] = NoUser

\* C20: get_user is called at most once per request and before any
\* shared-secret comparison, and the shared secret is compared only when no
\* provider is configured or the provider did not yield a verified user.
C20_ProviderThenSecretOnce ==
    \A r \in Slots :
        Supabase(r)
        => /\ Cardinality({ i \in 1..Len(trace[r]) : trace[r][i] = "get_user@140" }) <= 1
           /\ \A i, j \in 1..Len(trace[r]) :
                 (trace[r][i] = "get_user@140" /\ trace[r][j] = "compare@164") => i < j
           /\ Traced(r, "compare@164")
                => /\ supabase_client => Traced(r, "get_user@140")
                   /\ auth_response[r].kind # "user"

\* ------------------------------------------------------------- /auth/login

\* "phrase in message", on texts written as sequences of words.
Contains(message, phrase) ==
    \E i \in 1..(Len(message) - Len(phrase) + 1) :
        SubSeq(message, i, i + Len(phrase) - 1) = phrase

\* str(e) of the HTTPException raised at routers/auth.py:83-87.
StrOf401 == << "401:", "Invalid", "email", "or", "password" >>

ConnectionRefused == << "Connection", "refused" >>

\* Values of SUPABASE_URL and SUPABASE_ANON_KEY in the environment.
EnvValues == { None, "", "https://p" }

\* Credentials posted by clients: a confirmed account with its password and
\* with a wrong one, and an account whose email is not confirmed.
LoginCredentials ==
    { Credentials("a@example.org", "pw"), Credentials("a@example.org", "bad"),
      Credentials("b@example.org", "pw") }

Raised(message) == [kind |-> "raise", message |-> message, access_token |-> None]

\* What create_client and sign_in_with_password may give: the provider's
\* verdict on the credentials, an exception (unreachable provider, rate limit,
\* unusable URL), or a response lacking the user or the session.
SignInOutcomes(credentials) ==
    { Raised(ConnectionRefused), Raised(<< "Request", "rate", "limit", "reached" >>),
      Raised(<< "Invalid", "URL" >>),
      [kind |-> "nouser", message |-> << >>, access_token |-> None],
      [kind |-> "nosession", message |-> << >>, access_token |-> None] }
    \cup IF credentials = Credentials("a@example.org", "pw")
         THEN { [kind |-> "session", message |-> << >>, access_token |-> "jwt-a"] }
         ELSE IF credentials.email = "b@example.org"
         THEN { Raised(<< "Email", "not", "confirmed" >>) }
         ELSE { Raised(<< "Invalid", "login", "credentials" >>) }

\* Variant: only the provider's own wording is taken for bad credentials.
login_except_ProviderWordingOnly(error_message) ==
    IF Contains(error_message, << "Invalid", "login", "credentials" >>)
    THEN [status |-> 401, detail |-> "Invalid email or password"]
    ELSE IF Contains(error_message, << "Email", "not", "confirmed" >>)
    THEN [status |-> 403, detail |-> "Please confirm your email before logging in"]
    ELSE [status |-> 500, detail |-> "Authentication failed"]

\* The except clause of login: the status chosen from the exception's text.
login_except(error_message) ==
    IF \/ Contains(error_message, << "Invalid", "login", "credentials" >>)
       \/ Contains(error_message, << "Invalid", "email", "or", "password" >>)
    THEN [status |-> 401, detail |-> "Invalid email or password"]
    ELSE IF Contains(error_message, << "Email", "not", "confirmed" >>)
    THEN [status |-> 403, detail |-> "Please confirm your email before logging in"]
    ELSE [status |-> 500, detail |-> "Authentication failed"]

\* The try block of login for one provider outcome.
login_try(outcome) ==
    IF outcome.kind = "raise" THEN login_except(outcome.message)
    ELSE IF outcome.kind \in { "nouser", "nosession" } THEN login_except(StrOf401)
    ELSE [status |-> 200, detail |-> None]

Answered(call, outcome, status, detail) ==
    [call EXCEPT !.pc = "done", !.outcome = outcome, !.status = status,
                 !.detail = detail,
                 !.access_token = IF status = 200 THEN outcome.access_token ELSE None,
                 !.token_type = IF status = 200 THEN "bearer" ELSE None]

\* A client posts credentials to /auth/login.
LoginReceive ==
    /\ login_call.pc = "idle"
    /\ \E c \in LoginCredentials :
         login_call' = [login_call EXCEPT !.pc = "running", !.credentials = c]
    /\ UNCHANGED << config, pc, request, state_user, auth_response, trace, handler_saw,
                    response, notebook, result, notebook_fields, reference >>

\* POST /auth/login
login ==
    /\ login_call.pc = "running"
    /\ IF ~environ.SUPABASE_AVAILABLE
       THEN login_call' = Answered(login_call, NoOutcome, 503,
                                   "Supabase authentication is not available")
       ELSE IF ~Truthy(environ.SUPABASE_URL) \/ ~Truthy(environ.SUPABASE_ANON_KEY)
       THEN login_call' = Answered(login_call, NoOutcome, 503,
                                   "Supabase is not configured")
       ELSE \E outcome \in SignInOutcomes(login_call.credentials) :
               LET answer == login_try(outcome)
               IN  login_call' = Answered(login_call, outcome, answer.status,
                                          answer.detail)
    /\ UNCHANGED << config, pc, request, state_user, auth_response, trace, handler_saw,
                    response, notebook, result, notebook_fields, reference >>

\* The client has read the answer.
LoginComplete ==
    /\ login_call.pc = "done"
    /\ login_call' = LoginIdle
    /\ UNCHANGED << config, pc, request, state_user, auth_response, trace, handler_saw,
                    response, notebook, result, notebook_fields, reference >>

\* A process in any environment, its middleware constructed from it
\* (create_client may fail and leave the middleware without a client).
InitLogin ==
    /\ middleware = "SupabaseAuthMiddleware"
    /\ password = SecretS
    /\ \E available \in BOOLEAN, url \in EnvValues, key \in EnvValues :
         /\ environ = Environ(available, url, key, password)
         /\ supabase_client \in
               IF available /\ Truthy(url) /\ Truthy(key) THEN BOOLEAN ELSE { FALSE }
    /\ excluded_paths = DefaultExcludedPaths
    /\ NoTraffic
    /\ notebook = << >>
    /\ notebook_fields = << >>
    /\ reference = << >>
    /\ login_call = LoginIdle

NextLogin == LoginReceive \/ login \/ LoginComplete

SpecLogin == InitLogin /\ [][NextLogin]_vars

\* C16 as stated: an unreachable provider is answered 503, like a provider
\* that is not configured.
C16_UnreachableIs503 ==
    (login_call.pc = "done" /\ login_call.outcome = Raised(ConnectionRefused))
    => login_call.status = 503

\* C16: login maps every outcome to one result: a user and a session -> 200
\* with the provider's access token and token_type "bearer"; bad credentials,
\* or a response with no user or no session -> 401; unconfirmed email -> 403;
\* package missing or URL or key unset or empty -> 503 without calling the
\* provider; an unreachable provider, like any other provider error -> 500.
C16_LoginMapping ==
    login_call.pc = "done"
    => LET o == login_call.outcome
           configured == /\ environ.SUPABASE_AVAILABLE
                         /\ environ.SUPABASE_URL \notin { None, "" }
                         /\ environ.SUPABASE_ANON_KEY \notin { None, "" }
       IN  /\ ~configured <=> login_call.status = 503
           /\ ~configured => o = NoOutcome
           /\ o.kind = "session"
                => /\ login_call.status = 200
                   /\ login_call.access_token = o.access_token
                   /\ login_call.token_type = "bearer"
           /\ login_call.status = 200 => o.kind = "session"
           /\ o.kind \in { "nouser", "nosession" } => login_call.status = 401
           /\ o = Raised(<< "Invalid", "login", "credentials" >>)
                => login_call.status = 401
           /\ o = Raised(<< "Email", "not", "confirmed" >>) => login_call.status = 403
           /\ (o.kind = "raise" /\ o.message \in
                  { ConnectionRefused, << "Request", "rate", "limit", "reached" >>,
                    << "Invalid", "URL" >> })
                => login_call.status = 500

C16_Witness ==
    /\ login_call.pc = "done"
    /\ login_call.outcome = Raised(ConnectionRefused)
    /\ login_call.status = 500

\* ------------------------------------------------------ concurrent requests

\* A health probe, a search and a read.
ConcurrentShapes ==
    { Shape("/health", "GET"), Shape("/api/search", "POST"),
      [Shape("/api/notebooks/{notebook_id}", "GET") EXCEPT !.notebook_id = 1] }

\* No header, a user's token, the shared secret.
ConcurrentHeaders ==
    { NoneStr, << "B", "e", "a", "r", "e", "r", " ", "t" >>,
      << "b", "e", "a", "r", "e", "r", " ", "s" >> }

\* Two clients at once.
ReceiveConcurrent(r) ==
    ReceiveFrom(r, ConcurrentShapes, ConcurrentHeaders, { None })

InitConcurrent == Init /\ middleware = "SupabaseAuthMiddleware"

StepConcurrent(r) ==
    \/ ReceiveConcurrent(r)
    \/ Dispatch(r)
    \/ GetUser(r)
    \/ PasswordFallback(r)
    \/ get_notebook(r)
    \/ other_route(r)
    \/ Complete(r)

NextConcurrent == \E r \in Slots : StepConcurrent(r)

SpecConcurrent == InitConcurrent /\ [][NextConcurrent]_vars

\* What the middleware decides for a request, from the configuration, the
\* request's own path, method and header and the provider's answer for its
\* own token: forward with the identity, forward anonymous, or the detail of
\* a 401.
Decision(req, outcome) ==
    IF SkipSite(req, excluded_paths) # "none" THEN "forward anonymous"
    ELSE IF HeaderCheck(req.Authorization) # "ok" THEN HeaderCheck(req.Authorization)
    ELSE IF supabase_client /\ ProviderVerdict(outcome) = "forward"
    THEN "forward with identity"
    ELSE IF supabase_client /\ ProviderVerdict(outcome) = "reject" THEN "Invalid token"
    ELSE IF PasswordVerdict(password, HeaderToken(req.Authorization)) = "forward"
    THEN "forward anonymous"
    ELSE PasswordVerdict(password, HeaderToken(req.Authorization))

\* What happened to the request in slot r, up to the first handler call.
Outcome(r) ==
    IF ~HandlerInvoked(r) THEN response[r].detail
    ELSE IF handler_saw[r][1] # NoUser THEN "forward with identity"
    ELSE "forward anonymous"

\* The request in slot r carries the identity the provider gave for its own
\* token and no other, its handler saw that identity, and its outcome is the
\* decision for its own inputs.
Independent(r) ==
    /\ state_user[r] = IF auth_response[r].kind = "user"
                       THEN Identity(auth_response[r].user) ELSE NoUser
    /\ \A i \in 1..Len(handler_saw[r]) : handler_saw[r][i] = state_user[r]
    /\ pc[r] = "done" => Outcome(r) = Decision(request[r], auth_response[r])

\* C21: in every interleaving of two requests, each request's outcome and the
\* identity its handler sees are determined by its own path, method, headers
\* and the provider's answer for its own token, and no step changes the
\* provider client, the shared secret or the exempt paths.
C21_RequestsIndependent ==
    [][/\ \A r \in Slots : Independent(r)'
       /\ << middleware, supabase_client, password, excluded_paths >>' =
             << middleware, supabase_client, password, excluded_paths >>]_vars

\* One request was forwarded with its identity while the other was forwarded
\* anonymous on the shared secret.
C21_Witness ==
    /\ pc[1] = "done" /\ pc[2] = "done"
    /\ Outcome(1) = "forward with identity"
    /\ Outcome(2) = "forward anonymous"
    /\ Gated(2)
    /\ state_user[2] = NoUser

\* Number of stored reference edges between source x and notebook n, in
\* either direction.
Links(n, x) ==
    Copies(Relate(ensure_record_id("source", x), ensure_record_id("notebook", n)))
    + Copies(Relate(ensure_record_id("notebook", n), ensure_record_id("source", x)))

\* C22: whatever calls of add_source_to_notebook were made, storage holds at
\* most one reference linking a given source to a given notebook.
C22_AtMostOneReference ==
    \A n \in NotebookIds, x \in SourceIds : Links(n, x) <= 1

\* ------------------------------------------------- linking and unlinking

\* Requests that link and unlink source 1 and notebook 1.
LinkShapes ==
    { [Shape("/api/notebooks/{notebook_id}/sources/{source_id}", m) EXCEPT
          !.notebook_id = 1, !.source_id = 1] : m \in { "POST", "DELETE" } }

\* Two clients link and unlink source 1 and notebook 1.
ReceiveLinks(r) ==
    ReceiveFrom(r, LinkShapes, { << "b", "e", "a", "r", "e", "r", " ", "s" >> }, { None })

StepLinks(r) ==
    \/ ReceiveLinks(r)
    \/ Dispatch(r)
    \/ GetUser(r)
    \/ PasswordFallback(r)
    \/ add_source_to_notebook(r)
    \/ remove_source_from_notebook(r)
    \/ Complete(r)

NextLinks == \E r \in Slots : StepLinks(r)

SpecLinks == InitStore /\ [][NextLinks]_vars

\* The request in slot r was answered 200 by the given route.
Succeeded(r, route, detail) ==
    /\ pc[r] = "done"
    /\ Route(request[r]) = route
    /\ response[r] = [status |-> 200, detail |-> detail]

\* C23: a successful remove_source_from_notebook(N, S) leaves no reference
\* linking S to N in storage, whatever add_source_to_notebook(N, S) had
\* stored: the delete matches the direction RELATE creates.
C23_RemoveUndoesAdd ==
    [][\A r \in Slots :
          (/\ pc[r] = "handler"
           /\ Route(request[r]) = "remove_source_from_notebook"
           /\ pc'[r] = "done"
           /\ response'[r] = [status |-> 200, detail |-> "removed"])
          => LET nrid == ensure_record_id("notebook", request[r].notebook_id)
                 srid == ensure_record_id("source", request[r].source_id)
             IN  \A e \in DOMAIN reference' :
                    { e.in, e.out } # { nrid, srid }]_vars

\* Both calls are answered: the add linked the pair, and the remove that
\* came after it (an add after the remove would have left its edge) removed
\* the edge.
C23_Witness ==
    \E r, q \in Slots :
        /\ Succeeded(r, "add_source_to_notebook", "linked")
        /\ Succeeded(q, "remove_source_from_notebook", "removed")
        /\ request[r].notebook_id = request[q].notebook_id
        /\ request[r].source_id = request[q].source_id
        /\ Links(request[q].notebook_id, request[q].source_id) = 0

\* C24: no stored notebook has both user_id and team_id set, whatever
\* create_notebook and update_notebook calls were made.
C24_OneOwnerKind ==
    \A n \in DOMAIN notebook :
        ~(notebook[n].user_id # None /\ notebook[n].team_id # None)

\* A notebook created by user u1 for the team named in the body, and updated
\* since.
C24_Witness ==
    \E n \in DOMAIN notebook :
        /\ notebook[n] = [user_id |-> None, team_id |-> "teamB", created_by |-> "u1"]
        /\ notebook_fields[n].name = "n1"

\* C25: SupabaseAuthMiddleware.dispatch invokes the downstream handler at
\* most once per request, also when the handler raises after the provider
\* verified the token and the token equals the shared secret.
C25_HandlerAtMostOnce ==
    \A r \in Slots : Supabase(r) => Len(handler_saw[r]) <= 1

\* C26: a request whose token the provider verified and whose handler was
\* invoked is never answered 401: an error raised by the handler is not
\* taken for a provider failure.
C26_NoAuthFailureAfterVerified ==
    \A r \in Slots :
        (/\ Supabase(r) /\ pc[r] = "done"
         /\ auth_response[r].kind = "user"
         /\ HandlerInvoked(r))
        => response[r].status # 401

====
